---- MODULE Spec2Model ----
(***************************************************************************)
(* WenShape coordination layer.                                            *)
(*                                                                         *)
(*   Orchestrator  (backend/app/orchestrator/orchestrator.py) with the     *)
(*                 session router (backend/app/routers/session.py)         *)
(*   LLMGateway    (backend/app/llm_gateway/gateway.py)                    *)
(*                                                                         *)
(* A request handler is a coroutine: it runs atomically from one await of  *)
(* an external collaborator to the next.  pc[t] is the collaborator call   *)
(* request slot t is suspended in, "idle" when no request runs in t.       *)
(*                                                                         *)
(* Specifications, all from the one Init:                                  *)
(*   Spec         requests to the orchestrator, one after the other        *)
(*   ConcSpec     requests to the orchestrator that overlap                *)
(*   GwSpec       chats of the gateway, one after the other                *)
(*   GwConcSpec   chats of the gateway that overlap                        *)
(*   GwResetSpec  chats and resets of the gateway                          *)
(*   StreamSpec   stream_chat                                              *)
(*   ResolveSpec  get_provider_for_agent, assignments, mock mode           *)
(*   GwStreamSpec chats and a stream_chat of the gateway that overlap      *)
(*   BudgetSpec   TokenBudgeter (backend/app/context_engine/budgeter.py)   *)
(*   TokenSpec    count_tokens (backend/app/context_engine/               *)
(*                token_counter.py)                                        *)
(*   WindowSpec   get_model_context_window (same file)                     *)
(***************************************************************************)
EXTENDS Integers, Sequences, FiniteSets, TLC

VARIABLES
    current_status,      \* Orchestrator.current_status
    current_project_id,  \* Orchestrator.current_project_id, None is "none"
    current_chapter,     \* Orchestrator.current_chapter, None is "none"
    iteration_count,     \* Orchestrator.iteration_count
    drafts,              \* DraftStorage: latest draft version of a chapter, 0 = no draft
    final_drafts,        \* DraftStorage: draft version saved as final, 0 = none
    pc,                  \* per request slot: where the handler is suspended
    call,                \* per request slot: the arguments of the running/last request
                         \* and what the draft storage answered to it
    trace,               \* per request slot: events of the running/last request
    result,              \* per request slot: what the last request returned
    store,               \* llm_config_service: the saved profiles, id -> provider kind
    providers,           \* LLMGateway.providers: profile id -> client, by its kind
    total_requests,      \* LLMGateway.total_requests
    total_tokens,        \* LLMGateway.total_tokens
    gw,                  \* per chat slot: the chat invocation running/last run in it
    stream,              \* the stream_chat invocation running/last run
    mock_mode,           \* settings.wenshape_llm_provider is "mock"
    assignments,         \* llm_config_service: the saved assignments, agent -> profile id
    resolved,            \* the last get_provider_for_agent call and its outcome
    budgeter,            \* TokenBudgeter: total_tokens and allocations
    budget,              \* the last get_budget call and what it returned
    counted,             \* the last count_tokens call and what it returned
    window               \* the last get_model_context_window call and what it returned

orch_vars == <<current_status, current_project_id, current_chapter, iteration_count,
               drafts, final_drafts, pc, call, trace, result>>
\* what the chat actions leave alone
side_vars == <<stream, mock_mode, assignments, resolved>>
gw_vars == <<store, providers, total_requests, total_tokens, gw,
             stream, mock_mode, assignments, resolved>>
\* the context engine: budgeter, token counter, context windows
util_vars == <<budgeter, budget, counted, window>>
vars == <<current_status, current_project_id, current_chapter, iteration_count,
          drafts, final_drafts, pc, call, trace, result,
          store, providers, total_requests, total_tokens, gw,
          stream, mock_mode, assignments, resolved,
          budgeter, budget, counted, window>>

----------------------------------------------------------------------------
(* Bounds of the model *)

\* iteration_count has no upper limit in the code; revise requests are issued
\* only while it is below this cap.
MaxIterationCount == 7
\* draft versions kept per chapter
MaxVersions == 6
\* chat invocations are issued while total_requests is below this cap
MaxRequests == 2
\* usage.total_tokens a backend reports for one response
MaxUsage == 2
\* under ConcSpec revise requests are issued while iteration_count is below
\* this cap
MaxConcIterations == 1
\* chunks one backend stream yields at most
MaxChunks == 3
\* largest 0-based attempt index get_retry_delay is evaluated at
MaxAttemptIndex == 8

(* Program constants *)

max_iterations == 5
max_retries == 5
retry_delays == <<1, 2, 4, 8, 16>>
max_retry_delay == 60

Projects == {"p1", "p2"}
Chapters == {"ch1"}
Tasks == {"t1", "t2"}
None == "none"
NoIteration == -1

IDLE == "idle"
GENERATING_BRIEF == "generating_brief"
WRITING_DRAFT == "writing_draft"
REVIEWING == "reviewing"
EDITING == "editing"
WAITING_FEEDBACK == "waiting_feedback"
COMPLETED == "completed"
ERROR == "error"

SessionStatus == {IDLE, GENERATING_BRIEF, WRITING_DRAFT, REVIEWING, EDITING,
                  WAITING_FEEDBACK, COMPLETED, ERROR}

\* What a role-agent's execute can do: return success=True, return
\* success=False, or raise.
Outcomes == {"ok", "fail", "raise"}

Max(a, b) == IF a >= b THEN a ELSE b

----------------------------------------------------------------------------
(* Events of a request's trace: the payloads handed to progress_callback and
   the invocations and returns of the role-agents' execute *)

\* the payload _update_status hands to progress_callback
StatusPayload(status, p, c, i) ==
    [ev |-> "notify", what |-> status, project_id |-> p, chapter |-> c, iteration |-> i]

\* the payload _handle_error hands to progress_callback (it has no iteration key)
ErrorPayload(p, c) ==
    [ev |-> "notify", what |-> ERROR, project_id |-> p, chapter |-> c,
     iteration |-> NoIteration]

\* agent.execute(project_id=a.project_id, chapter=a.chapter, ...) is invoked
Exec(agent, a) ==
    [ev |-> "exec", what |-> agent, project_id |-> a.project_id,
     chapter |-> a.chapter, iteration |-> NoIteration]

\* agent.execute returned success=True ("ok"), success=False ("fail") or raised
Ret(agent, a, o) ==
    [ev |-> o, what |-> agent, project_id |-> a.project_id,
     chapter |-> a.chapter, iteration |-> NoIteration]

\* no request is running: under Spec the requests are issued one after the
\* other, each when the one before has returned, and run in slot t1
Quiet == \A u \in Tasks : pc[u] = "idle"

----------------------------------------------------------------------------
(* LLMGateway: profiles, clients and errors *)

ProfileIds == {"pA", "pB"}
\* provider kinds _create_provider_from_profile builds a client for
Kinds == {"custom", "qwen"}
\* a saved profile whose "provider" no branch of it matches: no client
Unsupported == "unsupported"
StoredKinds == Kinds \cup {Unsupported}
Absent == "absent"
MockId == "mock"
\* what a caller can pass as chat's provider argument: a profile id, the mock
\* id, a legacy provider name, an id nothing knows
ChatTargets == ProfileIds \cup {MockId, "custom", "ghost"}
ChatSlots == {"c1", "c2"}

\* the categories of errors.py classify_error
ErrorKinds == {"auth", "invalid_request", "timeout", "connection", "rate_limit",
               "server_error", "unknown"}

\* classify_error(e) -> (is_retryable, reason)
classify_error(e) ==
    [is_retryable |-> e \notin {"auth", "invalid_request"}, reason |-> e]

Min(a, b) == IF a <= b THEN a ELSE b

\* get_retry_delay(attempt, delays, max_delay), attempt counted from 0
get_retry_delay(attempt, delays, max_delay) ==
    Min(IF attempt < Len(delays) THEN delays[attempt + 1] ELSE delays[Len(delays)],
        max_delay)

\* _create_provider_from_profile: the client for a profile of this kind, None
\* (Absent) when no branch matches
CreateProvider(kind) == IF kind \in Kinds THEN kind ELSE Absent

\* __init__: _init_profiles loads every saved profile a client can be built
\* for, _ensure_mock_provider adds the mock client
InitProfiles(st) ==
    [id \in ChatTargets |->
        IF id = MockId THEN "mock"
        ELSE IF id \in ProfileIds /\ st[id] # Absent THEN CreateProvider(st[id])
        ELSE Absent]

Loaded(cache) == {id \in DOMAIN cache : cache[id] # Absent}

\* variant of TryLoadProfile that builds the cache anew around the loaded id
TryLoadProfile_Rebuild(cache, st, id) ==
    IF id \in Loaded(cache) THEN cache
    ELSE IF id \notin ProfileIds \/ st[id] = Absent THEN cache
    ELSE [x \in DOMAIN cache |->
            IF x = id THEN CreateProvider(st[id])
            ELSE IF x = MockId THEN "mock" ELSE Absent]

\* _try_load_profile_by_id: the cache after the call
TryLoadProfile(cache, st, id) ==
    IF id \in Loaded(cache) THEN cache
    ELSE IF id \notin ProfileIds \/ st[id] = Absent THEN cache
    ELSE [cache EXCEPT ![id] = CreateProvider(st[id])]

\* variant of ResolveTargets that falls back to any cached client
ResolveTargets_AnyClient(cache, id) ==
    IF id \in Loaded(cache) THEN {id} ELSE Loaded(cache)

\* chat: the profile ids whose client chat may pick for this provider
\* argument: the cached entry itself, else the first cached client whose
\* get_provider_name() equals the argument (dict order is not modelled: any)
ResolveTargets(cache, id) ==
    IF id \in Loaded(cache) THEN {id}
    ELSE {pid \in Loaded(cache) : cache[pid] = id}

IdleChat ==
    [pc |-> "idle", arg |-> "none", target |-> "none", retry |-> FALSE,
     attempt |-> 0, calls |-> 0, fails |-> 0, sleeps |-> << >>, out |-> "none",
     err |-> "none", usage |-> 0, req0 |-> 0, tok0 |-> 0, lazy |-> FALSE]

\* the chunks a backend's stream_chat yields
Chunks == {"a", "b"}

IdleStream ==
    [pc |-> "idle", arg |-> "none", target |-> "none", calls |-> 0,
     produced |-> << >>, forwarded |-> << >>, out |-> "none", err |-> "none"]

\* the agent names get_provider_for_agent is called with
Agents == {"archivist", "writer", "reviewer", "editor"}
\* llm_config_service: 'allowed = {"archivist", "writer", "editor"}'
AllowedAgents == {"archivist", "writer", "editor"}
\* an agent without profile: the empty string of the assignments file
NoProfile == ""

----------------------------------------------------------------------------
(* Context engine: the token budgeter (context_engine/budgeter.py) *)

\* the components TokenBudgeter.__init__ gives an allocation to
Components == {"system_rules", "cards", "canon", "summaries", "current_draft",
               "output_reserve"}
\* a component get_budget is asked for that has no allocation
UnknownComponent == "unknown"
\* 'budget_config.get("total_tokens", 128000)'
default_total_tokens == 128000
\* An allocation is a decimal of the configuration, written here in
\* hundredths: 0.30 is 30.
FractionDen == 100
\* the defaults of TokenBudgeter.__init__, in hundredths
DefaultAllocations ==
    [c \in Components |->
        CASE c = "system_rules"   -> 5
          [] c = "cards"          -> 15
          [] c = "canon"          -> 10
          [] c = "summaries"      -> 20
          [] c = "current_draft"  -> 30
          [] c = "output_reserve" -> 20]

\* hundredths below 0.00 and above 1.00 a configuration is drawn from
MaxFractionExcess == 5
Fractions == (0 - MaxFractionExcess)..(FractionDen + MaxFractionExcess)
\* the total_tokens a configuration is drawn from
TotalTokenChoices == {100, default_total_tokens, 200000}

\* the components a configuration is drawn with an allocation for
ConfiguredComponents == {"cards", "current_draft"}
\* app_config.config["context_budget"]: with or without total_tokens, with
\* one allocation or none
EmptyConfig == [k \in {} |-> 0]
BudgetConfigs ==
    LET totals == {EmptyConfig} \cup {[total_tokens |-> t] : t \in TotalTokenChoices}
        allocs == {EmptyConfig} \cup {c :> f : c \in ConfiguredComponents, f \in Fractions}
    IN  {t @@ a : t \in totals, a \in allocs}

\* TokenBudgeter.__init__: every key is read from the configuration with its
\* default, nothing is validated.
TokenBudgeter(budget_config) ==
    [total_tokens |-> IF "total_tokens" \in DOMAIN budget_config
                      THEN budget_config["total_tokens"] ELSE default_total_tokens,
     allocations  |-> [c \in Components |->
                          IF c \in DOMAIN budget_config
                          THEN budget_config[c] ELSE DefaultAllocations[c]]]

(* Python floats.  'self.total_tokens * allocation' is a product of an int   *)
(* and a float: an IEEE 754 double multiplication, rounded to nearest, ties  *)
(* to even.  Numbers too wide for a machine integer are numerals: sequences  *)
(* of digits of LimbBits bits, most significant first, 0 being the empty     *)
(* sequence.                                                                 *)

\* significant bits of a double
Mantissa == 53
\* bits of one digit of a numeral
LimbBits == 10
Limb == 2^LimbBits
\* digits a decimal is expanded by before it is rounded to a double
GuardLimbs == 7

Front(x) == SubSeq(x, 1, Len(x) - 1)

RECURSIVE Limbs(_)
Limbs(n) == IF n = 0 THEN << >> ELSE Append(Limbs(n \div Limb), n % Limb)

RECURSIVE Value(_)
Value(x) == IF x = << >> THEN 0 ELSE Limb * Value(Front(x)) + x[Len(x)]

RECURSIVE Strip(_)
Strip(x) == IF x # << >> /\ x[1] = 0 THEN Strip(Tail(x)) ELSE x

Zeros(k) == [i \in 1..k |-> 0]

\* bits of a digit, and of a numeral
BitLen(v) == Cardinality({i \in 0..LimbBits : 2^i <= v})
Width(x) == IF x = << >> THEN 0 ELSE (Len(x) - 1) * LimbBits + BitLen(x[1])

\* long division of numeral x by the integer d <= Limb: quotient q and
\* remainder r
RECURSIVE DivSmall(_, _, _, _)
DivSmall(x, d, q, r) ==
    IF x = << >> THEN [q |-> Strip(q), r |-> r]
    ELSE LET v == Limb * r + x[1]
         IN  DivSmall(Tail(x), d, Append(q, v \div d), v % d)

\* numeral x times the integer t, plus carry
RECURSIVE MulSmall(_, _, _)
MulSmall(x, t, carry) ==
    IF x = << >> THEN Limbs(carry)
    ELSE LET v == x[Len(x)] * t + carry
         IN  Append(MulSmall(Front(x), t, v \div Limb), v % Limb)

RECURSIVE Succ(_)
Succ(x) ==
    IF x = << >> THEN <<1>>
    ELSE IF x[Len(x)] < Limb - 1 THEN Append(Front(x), x[Len(x)] + 1)
    ELSE Append(Succ(Front(x)), 0)

\* x div 2^s, and whether a non-zero bit was dropped
RECURSIVE ShiftRight(_, _, _)
ShiftRight(x, s, sticky) ==
    IF s = 0 THEN [q |-> x, sticky |-> sticky]
    ELSE LET c == IF s < LimbBits THEN s ELSE LimbBits
             d == DivSmall(x, 2^c, << >>, 0)
         IN  ShiftRight(d.q, s - c, sticky \/ d.r # 0)

\* numeral x, followed by a non-zero tail when sticky, rounded to Mantissa
\* bits: the kept bits m and the number of bits dropped
RoundNearestEven(x, sticky) ==
    IF Width(x) <= Mantissa THEN [m |-> x, dropped |-> 0]
    ELSE LET s    == Width(x) - Mantissa
             y    == ShiftRight(x, s - 1, sticky)
             h    == DivSmall(y.q, 2, << >>, 0)
             odd  == h.q[Len(h.q)] % 2 = 1
             up   == h.r = 1 /\ (y.sticky \/ odd)
             m    == IF up THEN Succ(h.q) ELSE h.q
         IN  IF Width(m) > Mantissa
             THEN [m |-> DivSmall(m, 2, << >>, 0).q, dropped |-> s + 1]
             ELSE [m |-> m, dropped |-> s]

\* the double a decimal n/den (0 <= n < Limb) of the configuration is read
\* as: m * 2^e
FloatOf(n, den) ==
    IF n = 0 THEN [m |-> << >>, e |-> 0]
    ELSE LET d == DivSmall(<<n>> \o Zeros(GuardLimbs), den, << >>, 0)
             r == RoundNearestEven(d.q, d.r # 0)
         IN  [m |-> r.m, e |-> r.dropped - GuardLimbs * LimbBits]

\* int * float, the int t >= 0 being exact as a double
FloatTimes(t, f) ==
    LET r == RoundNearestEven(Strip(MulSmall(f.m, t, 0)), FALSE)
    IN  [m |-> r.m, e |-> f.e + r.dropped]

\* int(float) of a float >= 0: the fraction is cut off
Trunc(f) ==
    IF f.e >= 0 THEN Value(MulSmall(f.m, 2^f.e, 0))
    ELSE Value(ShiftRight(f.m, 0 - f.e, FALSE).q)

Abs(n) == IF n < 0 THEN 0 - n ELSE n

\* 'int(self.total_tokens * allocation)': int() cuts toward zero
IntOfProduct(total, hundredths) ==
    LET mag == Trunc(FloatTimes(total, FloatOf(Abs(hundredths), FractionDen)))
    IN  IF hundredths < 0 THEN 0 - mag ELSE mag

\* TokenBudgeter.get_budget
get_budget(b, component) ==
    LET allocation == IF component \in DOMAIN b.allocations
                      THEN b.allocations[component] ELSE 0
    IN  IntOfProduct(b.total_tokens, allocation)

----------------------------------------------------------------------------
(* Context engine: the token counter (context_engine/token_counter.py) *)

(* A text is the sequence of its code points.                                *)

\* the code points texts are made of: space, 'a', U+4F60 (a CJK unified
\* ideograph), U+20000 (a CJK extension B ideograph)
CodePoints == {32, 97, 20320, 131072}
\* longest text counted
MaxTextLen == 3
RECURSIVE TextsUpTo(_)
TextsUpTo(k) ==
    IF k = 0 THEN {<< >>}
    ELSE LET prev == TextsUpTo(k - 1)
         IN  prev \cup {Append(t, c) : t \in prev, c \in CodePoints}
Texts == TextsUpTo(MaxTextLen)

\* _CJK_PATTERN as Python's re reads it.  The escape \u takes four hex
\* digits, so '\u20000-\u2a6df' is U+2000, the range '0'..U+2A6D and 'f',
\* and '\u2a700-\u2b73f' is U+2A70, the range '0'..U+2B73 and 'f'.
_CJK_PATTERN(cp) ==
    \/ cp \in 19968..40959      \* U+4E00..U+9FFF
    \/ cp \in 13312..19903      \* U+3400..U+4DBF
    \/ cp = 8192                \* U+2000
    \/ cp \in 48..10861         \* '0'..U+2A6D
    \/ cp = 102                 \* 'f'
    \/ cp = 10864               \* U+2A70
    \/ cp \in 48..11123         \* '0'..U+2B73

\* 'len(_CJK_PATTERN.findall(text))'
CjkChars(text) == Cardinality({i \in 1..Len(text) : _CJK_PATTERN(text[i])})

\* _estimate_tokens_mixed: 'int(cjk_chars / 1.5 + other_chars / 4) + 1'.
\* other_chars / 4 is exact as a double; cjk_chars / 1.5 is exact when
\* cjk_chars is a multiple of 3 and otherwise has the fraction 1/3 or 2/3, so
\* the sum is an integer computed exactly or lies at least 1/12 away from every
\* integer: int() of the double sum is the integer part of
\* (8 * cjk_chars + 3 * other_chars) / 12.
_estimate_tokens_mixed(text) ==
    IF text = << >> THEN 0
    ELSE LET cjk_chars   == CjkChars(text)
             other_chars == Len(text) - cjk_chars
         IN  ((8 * cjk_chars + 3 * other_chars) \div 12) + 1

\* what the tiktoken encoding does with a text: it is not installed
\* ("unavailable"), encode raises ("raise"), or encode returns a list of n
\* tokens, at least one for a non-empty text and here at most one per code
\* point
Encodings(text) ==
    {[out |-> "unavailable", n |-> 0], [out |-> "raise", n |-> 0]}
        \cup {[out |-> "tokens", n |-> k] : k \in 1..Len(text)}

\* count_tokens
count_tokens(text, enc) ==
    IF text = << >> THEN 0
    ELSE IF enc.out = "tokens" THEN enc.n
    ELSE _estimate_tokens_mixed(text)

----------------------------------------------------------------------------
(* Context engine: context windows (context_engine/token_counter.py) *)

(* A model name is the sequence of its characters.                           *)

\* the table, in the order of the dict literal
MODEL_CONTEXT_WINDOWS ==
    <<
       [key |-> <<"g", "p", "t", "-", "4", "o">>, value |-> 128000],
       [key |-> <<"g", "p", "t", "-", "4", "o", "-", "m", "i", "n", "i">>, value |-> 128000],
       [key |-> <<"g", "p", "t", "-", "4", "-", "t", "u", "r", "b", "o">>, value |-> 128000],
       [key |-> <<"g", "p", "t", "-", "4">>, value |-> 8192],
       [key |-> <<"g", "p", "t", "-", "3", ".", "5", "-", "t", "u", "r", "b", "o">>, value |-> 16385],
       [key |-> <<"g", "p", "t", "-", "3", ".", "5", "-", "t", "u", "r", "b", "o", "-", "1", "6", "k">>, value |-> 16385],
       [key |-> <<"c", "l", "a", "u", "d", "e", "-", "3", "-", "5", "-", "s", "o", "n", "n", "e", "t", "-", "2", "0", "2", "4", "1", "0", "2", "2">>, value |-> 200000],
       [key |-> <<"c", "l", "a", "u", "d", "e", "-", "3", "-", "5", "-", "s", "o", "n", "n", "e", "t">>, value |-> 200000],
       [key |-> <<"c", "l", "a", "u", "d", "e", "-", "3", "-", "o", "p", "u", "s">>, value |-> 200000],
       [key |-> <<"c", "l", "a", "u", "d", "e", "-", "3", "-", "s", "o", "n", "n", "e", "t">>, value |-> 200000],
       [key |-> <<"c", "l", "a", "u", "d", "e", "-", "3", "-", "h", "a", "i", "k", "u">>, value |-> 200000],
       [key |-> <<"c", "l", "a", "u", "d", "e", "-", "2">>, value |-> 100000],
       [key |-> <<"d", "e", "e", "p", "s", "e", "e", "k", "-", "c", "h", "a", "t">>, value |-> 64000],
       [key |-> <<"d", "e", "e", "p", "s", "e", "e", "k", "-", "c", "o", "d", "e", "r">>, value |-> 64000],
       [key |-> <<"d", "e", "e", "p", "s", "e", "e", "k", "-", "r", "e", "a", "s", "o", "n", "e", "r">>, value |-> 64000],
       [key |-> <<"q", "w", "e", "n", "-", "t", "u", "r", "b", "o">>, value |-> 131072],
       [key |-> <<"q", "w", "e", "n", "-", "p", "l", "u", "s">>, value |-> 131072],
       [key |-> <<"q", "w", "e", "n", "-", "m", "a", "x">>, value |-> 32768],
       [key |-> <<"q", "w", "e", "n", "2", ".", "5", "-", "7", "2", "b", "-", "i", "n", "s", "t", "r", "u", "c", "t">>, value |-> 131072],
       [key |-> <<"m", "o", "o", "n", "s", "h", "o", "t", "-", "v", "1", "-", "8", "k">>, value |-> 8000],
       [key |-> <<"m", "o", "o", "n", "s", "h", "o", "t", "-", "v", "1", "-", "3", "2", "k">>, value |-> 32000],
       [key |-> <<"m", "o", "o", "n", "s", "h", "o", "t", "-", "v", "1", "-", "1", "2", "8", "k">>, value |-> 128000],
       [key |-> <<"g", "l", "m", "-", "4">>, value |-> 128000],
       [key |-> <<"g", "l", "m", "-", "4", "-", "p", "l", "u", "s">>, value |-> 128000],
       [key |-> <<"g", "l", "m", "-", "3", "-", "t", "u", "r", "b", "o">>, value |-> 128000],
       [key |-> <<"g", "e", "m", "i", "n", "i", "-", "2", ".", "5", "-", "f", "l", "a", "s", "h">>, value |-> 1000000],
       [key |-> <<"g", "e", "m", "i", "n", "i", "-", "3", "-", "f", "l", "a", "s", "h", "-", "p", "r", "e", "v", "i", "e", "w">>, value |-> 1000000],
       [key |-> <<"g", "e", "m", "i", "n", "i", "-", "p", "r", "o">>, value |-> 32000],
       [key |-> <<"g", "r", "o", "k", "-", "b", "e", "t", "a">>, value |-> 131072],
       [key |-> <<"g", "r", "o", "k", "-", "2">>, value |-> 131072]
    >>
DEFAULT_CONTEXT_WINDOW == 32000

Upper == <<"A", "B", "C", "D", "E", "F", "G", "H", "I", "J", "K", "L", "M",
           "N", "O", "P", "Q", "R", "S", "T", "U", "V", "W", "X", "Y", "Z">>
Lower == <<"a", "b", "c", "d", "e", "f", "g", "h", "i", "j", "k", "l", "m",
           "n", "o", "p", "q", "r", "s", "t", "u", "v", "w", "x", "y", "z">>
\* str.lower()
lower(s) ==
    [i \in 1..Len(s) |->
        IF \E j \in 1..Len(Upper) : Upper[j] = s[i]
        THEN Lower[CHOOSE j \in 1..Len(Upper) : Upper[j] = s[i]]
        ELSE s[i]]

\* str.startswith
startswith(s, p) == Len(p) <= Len(s) /\ SubSeq(s, 1, Len(p)) = p
\* 'p in s'
contains(s, p) ==
    \E i \in 1..(Len(s) - Len(p) + 1) : SubSeq(s, i, i + Len(p) - 1) = p

\* the substrings a window is inferred from, in the order they are tested
InferredWindows ==
    << [mark |-> <<"1", "2", "8", "k">>, value |-> 128000],
       [mark |-> <<"6", "4", "k">>,      value |-> 64000],
       [mark |-> <<"3", "2", "k">>,      value |-> 32000],
       [mark |-> <<"1", "6", "k">>,      value |-> 16000],
       [mark |-> <<"8", "k">>,           value |-> 8000] >>

\* 'model_lower.startswith(key) or key.startswith(model_lower)'
PrefixMatch(model_lower, key) ==
    startswith(model_lower, key) \/ startswith(key, model_lower)

\* the first index of a set of indices, 0 if there is none
First(S) == IF S = {} THEN 0 ELSE CHOOSE i \in S : \A j \in S : i <= j

\* 'model_lower in MODEL_CONTEXT_WINDOWS'
ExactKey(model_lower) ==
    First({i \in 1..Len(MODEL_CONTEXT_WINDOWS) :
              MODEL_CONTEXT_WINDOWS[i].key = model_lower})
\* 'for key, value in MODEL_CONTEXT_WINDOWS.items()': the first key, in the
\* order of the table, that the name matches by prefix
PrefixKey(model_lower) ==
    First({i \in 1..Len(MODEL_CONTEXT_WINDOWS) :
              PrefixMatch(model_lower, MODEL_CONTEXT_WINDOWS[i].key)})
\* the first of the substrings, in the order they are tested, the name holds
InferredFrom(model_lower) ==
    First({i \in 1..Len(InferredWindows) :
              contains(model_lower, InferredWindows[i].mark)})

\* variant of WindowOf that infers from the name before it looks for a prefix
WindowOf_InferFirst(model_lower) ==
    IF ExactKey(model_lower) # 0
    THEN MODEL_CONTEXT_WINDOWS[ExactKey(model_lower)].value
    ELSE IF InferredFrom(model_lower) # 0
    THEN InferredWindows[InferredFrom(model_lower)].value
    ELSE IF PrefixKey(model_lower) # 0
    THEN MODEL_CONTEXT_WINDOWS[PrefixKey(model_lower)].value
    ELSE DEFAULT_CONTEXT_WINDOW

\* get_model_context_window, from 'if model_lower in MODEL_CONTEXT_WINDOWS' on
WindowOf(model_lower) ==
    IF ExactKey(model_lower) # 0
    THEN MODEL_CONTEXT_WINDOWS[ExactKey(model_lower)].value
    ELSE IF PrefixKey(model_lower) # 0
    THEN MODEL_CONTEXT_WINDOWS[PrefixKey(model_lower)].value
    ELSE IF InferredFrom(model_lower) # 0
    THEN InferredWindows[InferredFrom(model_lower)].value
    ELSE DEFAULT_CONTEXT_WINDOW

\* get_model_context_window
get_model_context_window(model_name) ==
    IF model_name = << >> THEN DEFAULT_CONTEXT_WINDOW
    ELSE WindowOf(lower(model_name))

\* A model name is drawn as a stem followed by endings.
ModelNameStems ==
    {<<>>,
     <<"g">>,
     <<"g", "p", "t", "-", "4">>,
     <<"G", "P", "T", "-", "4">>,
     <<"g", "p", "t", "-", "3", ".", "5", "-", "t", "u", "r", "b", "o", "-">>,
     <<"m", "o", "o", "n", "s", "h", "o", "t", "-", "v", "1", "-">>,
     <<"c", "l", "a", "u", "d", "e", "-", "3">>,
     <<"d", "e", "e", "p", "s", "e", "e", "k", "-">>,
     <<"q", "w", "e", "n">>,
     <<"g", "l", "m", "-", "4">>,
     <<"g", "e", "m", "i", "n", "i">>,
     <<"g", "r", "o", "k", "-">>,
     <<"K", "i", "m", "i", "-">>,
     <<"l", "l", "a", "m", "a", "-">>,
     <<"x", "-">>,
     <<"t", "o", "t", "a", "l", "l", "y", "-", "u", "n", "k", "n", "o", "w", "n", "-", "m", "o", "d", "e", "l">>}
ModelNameEndings ==
    {<<"o">>,
     <<"8", "k">>,
     <<"1", "6", "K">>,
     <<"3", "2", "k">>,
     <<"6", "4", "k">>,
     <<"1", "2", "8", "k">>}
\* endings of the longest model name
MaxNameEndings == 1
RECURSIVE NamesUpTo(_)
NamesUpTo(k) ==
    IF k = 0 THEN ModelNameStems
    ELSE LET prev == NamesUpTo(k - 1)
         IN  prev \cup {n \o e : n \in prev, e \in ModelNameEndings}
ModelNames == NamesUpTo(MaxNameEndings)

----------------------------------------------------------------------------
Init ==
    /\ current_status = IDLE
    /\ current_project_id = None
    /\ current_chapter = None
    /\ iteration_count = 0
    /\ drafts = [p \in Projects, c \in Chapters |-> 0]
    /\ final_drafts = [p \in Projects, c \in Chapters |-> 0]
    /\ pc = [t \in Tasks |-> "idle"]
    /\ call = [t \in Tasks |-> [op |-> "none", project_id |-> None, chapter |-> None, latest |-> 0,
                              storage |-> "ok"]]
    /\ trace = [t \in Tasks |-> << >>]
    /\ result = [t \in Tasks |-> "none"]
    /\ store = [id \in ProfileIds |-> Absent]
    /\ providers = InitProfiles(store)
    /\ total_requests = 0
    /\ total_tokens = 0
    /\ gw = [k \in ChatSlots |-> IdleChat]
    /\ stream = IdleStream
    /\ mock_mode = FALSE
    /\ assignments = [a \in AllowedAgents |-> NoProfile]
    /\ resolved = [agent |-> "none", mock |-> FALSE, pid |-> NoProfile, out |-> "none"]
    /\ budgeter = TokenBudgeter(EmptyConfig)
    /\ budget = [component |-> "none", value |-> 0]
    /\ counted = [text |-> << >>, enc |-> [out |-> "none", n |-> 0], tokens |-> 0]
    /\ window = [model_name |-> << >>, value |-> 0]

----------------------------------------------------------------------------
(* Orchestrator *)

\* process_feedback: "if self.iteration_count >= self.max_iterations", read
\* after the increment
IterationLimitReached(n) == n >= max_iterations

\* variant of StartStepFailed that forgets the success test
StartStepFailed_RaiseOnly(agent, o) == o = "raise"

\* start_session: "if not x_result['success']: return await self._handle_error"
\* after each of the four steps; a raise reaches the except clause
StartStepFailed(agent, o) == o # "ok"

\* process_feedback: reviewer_result is never inspected, only a raise ends the
\* request; editor_result is checked like in start_session
FeedbackStepFailed(agent, o) ==
    IF agent = "reviewer" THEN o = "raise" ELSE o # "ok"

\* ReviewerAgent.execute and EditorAgent.execute return success=False when the
\* draft version they are given does not exist
AgentOutcomes(agent, p, c, version) ==
    IF agent \in {"reviewer", "editor"} /\ drafts[p, c] < version
    THEN {"fail", "raise"}
    ELSE Outcomes

\* _handle_error: status ERROR, one error payload, return success=False
HandleError(t, tr) ==
    /\ current_status' = ERROR
    /\ trace' = [trace EXCEPT ![t] = Append(tr, ErrorPayload(current_project_id', current_chapter'))]
    /\ pc' = [pc EXCEPT ![t] = "idle"]
    /\ result' = [result EXCEPT ![t] = "error"]

\* variant of StepTo that invokes the agent before it notifies
StepTo_ExecFirst(t, tr, status, agent, a) ==
    /\ current_status' = status
    /\ trace' = [trace EXCEPT ![t] =
           tr \o <<Exec(agent, a),
                   StatusPayload(status, current_project_id', current_chapter',
                                 iteration_count')>>]
    /\ pc' = [pc EXCEPT ![t] = agent]
    /\ result' = [result EXCEPT ![t] = "pending"]

\* _update_status(status, ...) and then "await agent.execute(...)"
StepTo(t, tr, status, agent, a) ==
    /\ current_status' = status
    /\ trace' = [trace EXCEPT ![t] =
           tr \o <<StatusPayload(status, current_project_id', current_chapter',
                                 iteration_count'),
                   Exec(agent, a)>>]
    /\ pc' = [pc EXCEPT ![t] = agent]
    /\ result' = [result EXCEPT ![t] = "pending"]

\* _update_status(WAITING_FEEDBACK, ...) and then "await self._detect_proposals"
StepToWaiting(t, tr) ==
    /\ current_status' = WAITING_FEEDBACK
    /\ trace' = [trace EXCEPT ![t] =
           Append(tr, StatusPayload(WAITING_FEEDBACK, current_project_id',
                                    current_chapter', iteration_count'))]
    /\ pc' = [pc EXCEPT ![t] = "proposals"]
    /\ result' = [result EXCEPT ![t] = "pending"]

\* start_session up to the await of archivist.execute
StartSession(t, p, c) ==
    /\ pc[t] = "idle"
    /\ UNCHANGED gw_vars
    /\ UNCHANGED util_vars
    /\ current_project_id' = p
    /\ current_chapter' = c
    /\ iteration_count' = 0
    /\ call' = [call EXCEPT ![t] = [op |-> "start", project_id |-> p, chapter |-> c, latest |-> 1,
                                     storage |-> "ok"]]
    /\ StepTo(t, << >>, GENERATING_BRIEF, "archivist", call'[t])
    /\ UNCHANGED <<drafts, final_drafts>>

\* start_session from the return of archivist.execute, through the reads of
\* the card and canon storage (storage_ok: none of them raises), up to the
\* await of writer.execute
StartArchivistReturn(t, o, storage_ok) ==
    /\ pc[t] = "archivist" /\ call[t].op = "start"
    /\ UNCHANGED gw_vars
    /\ UNCHANGED util_vars
    /\ UNCHANGED <<current_project_id, current_chapter, iteration_count, call,
                   drafts, final_drafts>>
    /\ LET tr == Append(trace[t], Ret("archivist", call[t], o))
       IN  IF StartStepFailed("archivist", o) \/ ~storage_ok
           THEN HandleError(t, tr)
           ELSE StepTo(t, tr, WRITING_DRAFT, "writer", call[t])

\* WriterAgent.execute saves the draft as version v1 before it returns success
StartWriterReturn(t, o) ==
    /\ pc[t] = "writer" /\ call[t].op = "start"
    /\ UNCHANGED gw_vars
    /\ UNCHANGED util_vars
    /\ UNCHANGED <<current_project_id, current_chapter, iteration_count, call,
                   final_drafts>>
    /\ LET tr == Append(trace[t], Ret("writer", call[t], o))
           key == <<call[t].project_id, call[t].chapter>>
       IN  /\ drafts' = IF o = "ok" THEN [drafts EXCEPT ![key] = Max(@, 1)] ELSE drafts
           /\ IF StartStepFailed("writer", o)
              THEN HandleError(t, tr)
              ELSE StepTo(t, tr, REVIEWING, "reviewer", call[t])

StartReviewerReturn(t, o) ==
    /\ pc[t] = "reviewer" /\ call[t].op = "start"
    /\ UNCHANGED gw_vars
    /\ UNCHANGED util_vars
    /\ UNCHANGED <<current_project_id, current_chapter, iteration_count, call,
                   drafts, final_drafts>>
    /\ o \in AgentOutcomes("reviewer", call[t].project_id, call[t].chapter, 1)
    /\ LET tr == Append(trace[t], Ret("reviewer", call[t], o))
       IN  IF StartStepFailed("reviewer", o)
           THEN HandleError(t, tr)
           ELSE StepTo(t, tr, EDITING, "editor", call[t])

\* EditorAgent.execute saves the revision of v1 as v2 before it returns success
StartEditorReturn(t, o) ==
    /\ pc[t] = "editor" /\ call[t].op = "start"
    /\ UNCHANGED gw_vars
    /\ UNCHANGED util_vars
    /\ UNCHANGED <<current_project_id, current_chapter, iteration_count, call,
                   final_drafts>>
    /\ o \in AgentOutcomes("editor", call[t].project_id, call[t].chapter, 1)
    /\ LET tr == Append(trace[t], Ret("editor", call[t], o))
           key == <<call[t].project_id, call[t].chapter>>
       IN  /\ drafts' = IF o = "ok" THEN [drafts EXCEPT ![key] = Max(@, 2)] ELSE drafts
           /\ IF StartStepFailed("editor", o)
              THEN HandleError(t, tr)
              ELSE StepToWaiting(t, tr)

\* _detect_proposals swallows every exception; start_session and
\* process_feedback then return success=True
ProposalsReturn(t) ==
    /\ pc[t] = "proposals"
    /\ UNCHANGED gw_vars
    /\ UNCHANGED util_vars
    /\ pc' = [pc EXCEPT ![t] = "idle"]
    /\ result' = [result EXCEPT ![t] = "ok"]
    /\ UNCHANGED <<current_status, current_project_id, current_chapter,
                   iteration_count, call, trace, drafts, final_drafts>>

\* process_feedback(action="revise") up to the await of reviewer.execute.
\* storage_ok: draft_storage.list_draft_versions does not raise
FeedbackRevise(t, p, c, storage_ok) ==
    /\ pc[t] = "idle"
    /\ UNCHANGED gw_vars
    /\ UNCHANGED util_vars
    /\ iteration_count < MaxIterationCount
    /\ iteration_count' = iteration_count + 1
    /\ UNCHANGED <<current_project_id, current_chapter, drafts, final_drafts>>
    /\ call' = [call EXCEPT ![t] =
           [op |-> "revise", project_id |-> p, chapter |-> c,
            latest |-> IF drafts[p, c] > 0 THEN drafts[p, c] ELSE 1,
            storage |-> "ok"]]
    /\ IF IterationLimitReached(iteration_count')
       THEN /\ trace' = [trace EXCEPT ![t] = << >>]
            /\ result' = [result EXCEPT ![t] = "rejected"]
            /\ UNCHANGED <<current_status, pc>>
       ELSE IF ~storage_ok
            THEN HandleError(t, << >>)
            ELSE StepTo(t, << >>, REVIEWING, "reviewer", call'[t])

FeedbackReviewerReturn(t, o) ==
    /\ pc[t] = "reviewer" /\ call[t].op = "revise"
    /\ UNCHANGED gw_vars
    /\ UNCHANGED util_vars
    /\ o \in AgentOutcomes("reviewer", call[t].project_id, call[t].chapter, call[t].latest)
    /\ UNCHANGED <<current_project_id, current_chapter, iteration_count, call,
                   drafts, final_drafts>>
    /\ LET tr == Append(trace[t], Ret("reviewer", call[t], o))
       IN  IF FeedbackStepFailed("reviewer", o)
           THEN HandleError(t, tr)
           ELSE StepTo(t, tr, EDITING, "editor", call[t])

\* EditorAgent.execute saves the revision of the latest version as the next
\* version before it returns success
FeedbackEditorReturn(t, o) ==
    /\ pc[t] = "editor" /\ call[t].op = "revise"
    /\ UNCHANGED gw_vars
    /\ UNCHANGED util_vars
    /\ o \in AgentOutcomes("editor", call[t].project_id, call[t].chapter, call[t].latest)
    /\ o = "ok" => call[t].latest < MaxVersions
    /\ UNCHANGED <<current_project_id, current_chapter, iteration_count, call,
                   final_drafts>>
    /\ LET tr == Append(trace[t], Ret("editor", call[t], o))
           key == <<call[t].project_id, call[t].chapter>>
       IN  /\ drafts' = IF o = "ok"
                        THEN [drafts EXCEPT ![key] = Max(@, call[t].latest + 1)]
                        ELSE drafts
           /\ IF FeedbackStepFailed("editor", o)
              THEN HandleError(t, tr)
              ELSE StepToWaiting(t, tr)

\* variant of LatestVersion that takes the first version of the list
LatestVersion_First(p, c) == IF drafts[p, c] = 0 THEN 0 ELSE 1

\* _finalize_chapter: "latest_version = versions[-1]" of list_draft_versions,
\* 0 when the list is empty
LatestVersion(p, c) == drafts[p, c]

\* process_feedback(action="confirm"): _finalize_chapter up to the await of
\* _analyze_content.  found: get_draft returns the latest version's content;
\* storage_ok: no storage call raises
FeedbackConfirm(t, p, c, found, storage_ok) ==
    /\ pc[t] = "idle"
    /\ UNCHANGED gw_vars
    /\ UNCHANGED util_vars
    /\ UNCHANGED <<current_project_id, current_chapter, iteration_count, drafts>>
    /\ call' = [call EXCEPT ![t] =
           [op |-> "confirm", project_id |-> p, chapter |-> c,
            latest |-> LatestVersion(p, c),
            storage |-> IF ~storage_ok THEN "raise"
                        ELSE IF ~found THEN "no_content" ELSE "ok"]]
    /\ IF LatestVersion(p, c) = 0 \/ ~found \/ ~storage_ok
       THEN /\ HandleError(t, << >>)
            /\ UNCHANGED final_drafts
       ELSE /\ final_drafts' = [final_drafts EXCEPT ![p, c] = LatestVersion(p, c)]
            /\ trace' = [trace EXCEPT ![t] = << >>]
            /\ pc' = [pc EXCEPT ![t] = "analyze"]
            /\ result' = [result EXCEPT ![t] = "pending"]
            /\ UNCHANGED current_status

\* _analyze_content swallows every exception; then
\* _update_status(COMPLETED, ...) and return success=True
AnalyzeReturn(t) ==
    /\ pc[t] = "analyze"
    /\ UNCHANGED gw_vars
    /\ UNCHANGED util_vars
    /\ current_status' = COMPLETED
    /\ trace' = [trace EXCEPT ![t] =
           Append(@, StatusPayload(COMPLETED, current_project_id, current_chapter,
                                   iteration_count))]
    /\ pc' = [pc EXCEPT ![t] = "idle"]
    /\ result' = [result EXCEPT ![t] = "ok"]
    /\ UNCHANGED <<current_project_id, current_chapter, iteration_count, call,
                   drafts, final_drafts>>

\* routers/session.py cancel_session(project_id): resets three fields of the
\* orchestrator and broadcasts the idle payload itself
CancelSession(t, p) ==
    /\ pc[t] = "idle"
    /\ UNCHANGED gw_vars
    /\ UNCHANGED util_vars
    /\ current_status' = IDLE
    /\ current_project_id' = None
    /\ current_chapter' = None
    /\ call' = [call EXCEPT ![t] =
           [op |-> "cancel", project_id |-> p, chapter |-> None, latest |-> 0,
            storage |-> "ok"]]
    /\ trace' = [trace EXCEPT ![t] = <<StatusPayload(IDLE, p, None, 0)>>]
    /\ result' = [result EXCEPT ![t] = "ok"]
    /\ UNCHANGED <<iteration_count, drafts, final_drafts, pc>>

OrchNext ==
    \/ \E p \in Projects, c \in Chapters : Quiet /\ StartSession("t1", p, c)
    \/ \E o \in Outcomes, s \in BOOLEAN : StartArchivistReturn("t1", o, s)
    \/ \E o \in Outcomes : StartWriterReturn("t1", o)
    \/ \E o \in Outcomes : StartReviewerReturn("t1", o)
    \/ \E o \in Outcomes : StartEditorReturn("t1", o)
    \/ ProposalsReturn("t1")
    \/ \E p \in Projects, c \in Chapters, s \in BOOLEAN :
           Quiet /\ FeedbackRevise("t1", p, c, s)
    \/ \E o \in Outcomes : FeedbackReviewerReturn("t1", o)
    \/ \E o \in Outcomes : FeedbackEditorReturn("t1", o)
    \/ \E p \in Projects, c \in Chapters, f \in BOOLEAN, s \in BOOLEAN :
           Quiet /\ FeedbackConfirm("t1", p, c, f, s)
    \/ AnalyzeReturn("t1")
    \/ \E p \in Projects : Quiet /\ CancelSession("t1", p)

\* Requests that overlap.  routers/session.py hands every request to the one
\* global Orchestrator and takes no lock, so the event loop runs a second
\* handler whenever the first is suspended in an await.  Slot t1 carries the
\* start and revise requests of project p1; slot t2 carries a start of project
\* p2 or a cancel, issued at any moment.
ConcNext ==
    \/ \E c \in Chapters : StartSession("t1", "p1", c)
    \/ \E c \in Chapters : StartSession("t2", "p2", c)
    \/ \E t \in Tasks, o \in Outcomes, s \in BOOLEAN : StartArchivistReturn(t, o, s)
    \/ \E t \in Tasks, o \in Outcomes : StartWriterReturn(t, o)
    \/ \E t \in Tasks, o \in Outcomes : StartReviewerReturn(t, o)
    \/ \E t \in Tasks, o \in Outcomes : StartEditorReturn(t, o)
    \/ \E t \in Tasks : ProposalsReturn(t)
    \/ \E c \in Chapters :
           iteration_count < MaxConcIterations /\ FeedbackRevise("t1", "p1", c, TRUE)
    \/ \E o \in Outcomes : FeedbackReviewerReturn("t1", o)
    \/ \E o \in Outcomes : FeedbackEditorReturn("t1", o)
    \/ \E p \in Projects : CancelSession("t2", p)

----------------------------------------------------------------------------
(* LLMGateway.chat *)

\* variant of AfterFailure that goes on after an authentication failure
AfterFailure_RetryAuth(attempt, e) ==
    IF ~classify_error(e).is_retryable /\ e # "auth" THEN "raise"
    ELSE IF attempt < max_retries - 1 THEN "sleep"
    ELSE "exhausted"

\* variant of AfterFailure whose loop runs one attempt more
AfterFailure_OneMore(attempt, e) ==
    IF ~classify_error(e).is_retryable THEN "raise"
    ELSE IF attempt < max_retries THEN "sleep"
    ELSE "exhausted"

\* variant of AfterFailure that retries whatever the classification
AfterFailure_IgnoreClass(attempt, e) ==
    IF attempt < max_retries - 1 THEN "sleep" ELSE "exhausted"

\* _chat_with_retry, the except clause: what follows a failed attempt
\* (0-based index attempt) with an error of kind e:
\* "raise" it, "sleep" and try again, or leave the loop "exhausted"
AfterFailure(attempt, e) ==
    IF ~classify_error(e).is_retryable THEN "raise"
    ELSE IF attempt < max_retries - 1 THEN "sleep"
    ELSE "exhausted"

\* chat up to the first await of provider.chat, or to "raise ValueError"
Chat(k, id, retry) ==
    /\ gw[k].pc = "idle"
    /\ UNCHANGED orch_vars
    /\ UNCHANGED util_vars
    /\ UNCHANGED side_vars
    /\ total_requests < MaxRequests
    /\ providers' = TryLoadProfile(providers, store, id)
    /\ IF ResolveTargets(providers', id) = {}
       THEN gw' = [gw EXCEPT ![k] =
                [IdleChat EXCEPT !.arg = id, !.retry = retry, !.out = "raised",
                                 !.err = "not_found", !.req0 = total_requests,
                                 !.tok0 = total_tokens,
                                 !.lazy = id \notin Loaded(providers)
                                          /\ id \in Loaded(providers')]]
       ELSE \E target \in ResolveTargets(providers', id) :
              gw' = [gw EXCEPT ![k] =
                [IdleChat EXCEPT !.pc = "backend", !.arg = id, !.target = target,
                                 !.retry = retry, !.calls = 1, !.out = "pending",
                                 !.req0 = total_requests, !.tok0 = total_tokens,
                                 !.lazy = id \notin Loaded(providers)
                                          /\ id \in Loaded(providers')]]
    /\ UNCHANGED <<store, total_requests, total_tokens>>

\* variant of BackendReturn that adds to the counters as read when the chat
\* began
BackendReturn_Stale(k, usage) ==
    /\ gw[k].pc = "backend"
    /\ UNCHANGED orch_vars
    /\ UNCHANGED util_vars
    /\ UNCHANGED side_vars
    /\ total_requests' = gw[k].req0 + 1
    /\ total_tokens' = gw[k].tok0 + usage
    /\ gw' = [gw EXCEPT ![k].pc = "idle", ![k].out = "returned", ![k].usage = usage]
    /\ UNCHANGED <<store, providers>>

\* _execute_chat after provider.chat returned a response reporting
\* usage.total_tokens = usage
BackendReturn(k, usage) ==
    /\ gw[k].pc = "backend"
    /\ UNCHANGED orch_vars
    /\ UNCHANGED util_vars
    /\ UNCHANGED side_vars
    /\ total_requests' = total_requests + 1
    /\ total_tokens' = total_tokens + usage
    /\ gw' = [gw EXCEPT ![k].pc = "idle", ![k].out = "returned", ![k].usage = usage]
    /\ UNCHANGED <<store, providers>>

\* variant of BackendRaise that hands get_retry_delay the 1-based attempt number
BackendRaise_OneBased(k, e) ==
    /\ gw[k].pc = "backend"
    /\ UNCHANGED orch_vars
    /\ UNCHANGED util_vars
    /\ UNCHANGED side_vars
    /\ LET after == IF gw[k].retry THEN AfterFailure(gw[k].attempt, e) ELSE "raise"
       IN  gw' = [gw EXCEPT ![k] =
             IF after = "sleep"
             THEN [@ EXCEPT !.pc = "sleep", !.err = e, !.fails = @ + 1,
                     !.sleeps = Append(@, get_retry_delay(gw[k].attempt + 1, retry_delays,
                                                          max_retry_delay))]
             ELSE [@ EXCEPT !.pc = "idle", !.err = e, !.fails = @ + 1,
                     !.out = "raised"]]
    /\ UNCHANGED <<store, providers, total_requests, total_tokens>>

\* variant of BackendRaise that counts the failed attempt as a request
BackendRaise_Counted(k, e) ==
    /\ gw[k].pc = "backend"
    /\ UNCHANGED orch_vars
    /\ UNCHANGED util_vars
    /\ UNCHANGED side_vars
    /\ total_requests' = total_requests + 1
    /\ LET after == IF gw[k].retry THEN AfterFailure(gw[k].attempt, e) ELSE "raise"
       IN  gw' = [gw EXCEPT ![k] =
             IF after = "sleep"
             THEN [@ EXCEPT !.pc = "sleep", !.err = e, !.fails = @ + 1,
                     !.sleeps = Append(@, get_retry_delay(gw[k].attempt, retry_delays,
                                                          max_retry_delay))]
             ELSE [@ EXCEPT !.pc = "idle", !.err = e, !.fails = @ + 1,
                     !.out = "raised"]]
    /\ UNCHANGED <<store, providers, total_tokens>>

\* provider.chat raised an error of kind e
BackendRaise(k, e) ==
    /\ gw[k].pc = "backend"
    /\ UNCHANGED orch_vars
    /\ UNCHANGED util_vars
    /\ UNCHANGED side_vars
    /\ LET after == IF gw[k].retry THEN AfterFailure(gw[k].attempt, e) ELSE "raise"
       IN  gw' = [gw EXCEPT ![k] =
             IF after = "sleep"
             THEN [@ EXCEPT !.pc = "sleep", !.err = e, !.fails = @ + 1,
                     !.sleeps = Append(@, get_retry_delay(gw[k].attempt, retry_delays,
                                                          max_retry_delay))]
             ELSE [@ EXCEPT !.pc = "idle", !.err = e, !.fails = @ + 1,
                     !.out = "raised"]]
    /\ UNCHANGED <<store, providers, total_requests, total_tokens>>

\* asyncio.sleep(delay) is over: the next attempt calls provider.chat
SleepDone(k) ==
    /\ gw[k].pc = "sleep"
    /\ UNCHANGED orch_vars
    /\ UNCHANGED util_vars
    /\ UNCHANGED side_vars
    /\ gw' = [gw EXCEPT ![k].pc = "backend", ![k].attempt = @ + 1, ![k].calls = @ + 1]
    /\ UNCHANGED <<store, providers, total_requests, total_tokens>>

\* llm_config_service.save_profile: a profile is saved while the gateway lives
SaveProfile(id, kind) ==
    /\ \A k \in ChatSlots : gw[k].pc = "idle"
    /\ UNCHANGED orch_vars
    /\ UNCHANGED util_vars
    /\ UNCHANGED side_vars
    /\ store[id] # kind
    /\ store' = [store EXCEPT ![id] = kind]
    /\ UNCHANGED <<providers, total_requests, total_tokens, gw>>

\* reset_gateway() drops the global instance, and the get_gateway() of the
\* next request builds a new LLMGateway: __init__ loads the saved profiles and
\* the mock client and starts both counters at 0.  The variables of the
\* gateway are those of the instance get_gateway() returns.
ResetGateway ==
    /\ \A k \in ChatSlots : gw[k].pc = "idle"
    /\ UNCHANGED orch_vars
    /\ UNCHANGED util_vars
    /\ UNCHANGED side_vars
    /\ providers' = InitProfiles(store)
    /\ total_requests' = 0
    /\ total_tokens' = 0
    /\ UNCHANGED <<store, gw>>

----------------------------------------------------------------------------
(* LLMGateway.stream_chat *)

\* variant of Forward that hands the newest chunk over first
Forward_NewestFirst(sent, chunk) == <<chunk>> \o sent

\* stream_chat: "async for chunk in target_provider.stream_chat(...): yield
\* chunk", what the caller has received after the next chunk
Forward(sent, chunk) == Append(sent, chunk)

\* stream_chat up to the call of target_provider.stream_chat, or to
\* "raise ValueError"
StreamChat(id) ==
    /\ stream.pc = "idle"
    /\ UNCHANGED orch_vars
    /\ UNCHANGED util_vars
    /\ providers' = TryLoadProfile(providers, store, id)
    /\ IF ResolveTargets(providers', id) = {}
       THEN stream' = [IdleStream EXCEPT !.arg = id, !.out = "raised",
                                        !.err = "not_found"]
       ELSE \E target \in ResolveTargets(providers', id) :
              stream' = [IdleStream EXCEPT !.pc = "stream", !.arg = id,
                                          !.target = target, !.calls = 1,
                                          !.out = "pending"]
    /\ UNCHANGED <<store, total_requests, total_tokens, gw, mock_mode,
                   assignments, resolved>>

\* the backend's stream yields a chunk and stream_chat yields it to its caller
StreamChunk(chunk) ==
    /\ stream.pc = "stream"
    /\ UNCHANGED orch_vars
    /\ UNCHANGED util_vars
    /\ Len(stream.produced) < MaxChunks
    /\ stream' = [stream EXCEPT !.produced = Append(@, chunk),
                                !.forwarded = Forward(@, chunk)]
    /\ UNCHANGED <<store, providers, total_requests, total_tokens, gw, mock_mode,
                   assignments, resolved>>

\* the backend's stream is exhausted: stream_chat ends
StreamEnd ==
    /\ stream.pc = "stream"
    /\ UNCHANGED orch_vars
    /\ UNCHANGED util_vars
    /\ stream' = [stream EXCEPT !.pc = "idle", !.out = "done"]
    /\ UNCHANGED <<store, providers, total_requests, total_tokens, gw, mock_mode,
                   assignments, resolved>>

\* the backend's stream raises an error of kind e: nothing in stream_chat
\* catches it
StreamRaise(e) ==
    /\ stream.pc = "stream"
    /\ UNCHANGED orch_vars
    /\ UNCHANGED util_vars
    /\ stream' = [stream EXCEPT !.pc = "idle", !.out = "raised", !.err = e]
    /\ UNCHANGED <<store, providers, total_requests, total_tokens, gw, mock_mode,
                   assignments, resolved>>

StreamNext ==
    \/ \E id \in ChatTargets : StreamChat(id)
    \/ \E chunk \in Chunks : StreamChunk(chunk)
    \/ StreamEnd
    \/ \E e \in ErrorKinds : StreamRaise(e)
    \/ \E id \in ProfileIds, kind \in StoredKinds : SaveProfile(id, kind)

----------------------------------------------------------------------------
(* LLMGateway.get_provider_for_agent and the assignments it reads *)

\* the profile ids a request can name in an assignment
AssignableIds == ProfileIds \cup {NoProfile, "ghost"}

\* llm_config_service.get_assignments: the allowed agents, each with its saved
\* profile id, or with "" when that id is not the id of a saved profile
GetAssignments(file, st) ==
    [a \in AllowedAgents |->
        IF file[a] \in ProfileIds /\ st[file[a]] # Absent THEN file[a] ELSE NoProfile]

\* get_provider_for_agent: "assignments.get(agent_name)", None is ""
AssignedProfile(agent) ==
    IF agent \in AllowedAgents THEN GetAssignments(assignments, store)[agent]
    ELSE NoProfile

\* _ensure_mock_provider: the cache after the call
EnsureMock(cache) ==
    IF MockId \in Loaded(cache) THEN cache ELSE [cache EXCEPT ![MockId] = "mock"]

\* variant of ProviderForAgent that does not look at the mock mode
ProviderForAgent_NoMockMode(agent, mock) ==
    LET pid == AssignedProfile(agent)
        loaded == TryLoadProfile(providers, store, pid)
    IN  IF pid = NoProfile
        THEN [out |-> IF MockId \in Loaded(providers) THEN MockId ELSE "not_assigned",
              cache |-> providers]
        ELSE [out |-> IF pid \in Loaded(loaded) THEN pid ELSE "not_loaded",
              cache |-> loaded]

\* get_provider_for_agent(agent_name) with _is_mock_mode() = mock: the id it
\* returns, or the ValueError it raises ("not_assigned", "not_loaded"), and
\* the cache after the call
ProviderForAgent(agent, mock) ==
    IF mock THEN [out |-> MockId, cache |-> EnsureMock(providers)]
    ELSE LET pid == AssignedProfile(agent)
             loaded == TryLoadProfile(providers, store, pid)
         IN  IF pid = NoProfile
             THEN [out |-> IF MockId \in Loaded(providers) THEN MockId
                           ELSE "not_assigned",
                   cache |-> providers]
             ELSE [out |-> IF pid \in Loaded(loaded) THEN pid ELSE "not_loaded",
                   cache |-> loaded]

Resolve(agent) ==
    /\ UNCHANGED orch_vars
    /\ UNCHANGED util_vars
    /\ LET r == ProviderForAgent(agent, mock_mode)
       IN  /\ providers' = r.cache
           /\ resolved' = [agent |-> agent, mock |-> mock_mode,
                           pid |-> AssignedProfile(agent), out |-> r.out]
    /\ UNCHANGED <<store, total_requests, total_tokens, gw, stream, mock_mode,
                   assignments>>

\* llm_config_service.save_assignments({agent: id}): the cleaned current
\* assignments, updated with the entry when the agent is an allowed one
SaveAssignments(agent, id) ==
    /\ UNCHANGED orch_vars
    /\ UNCHANGED util_vars
    /\ LET current == GetAssignments(assignments, store)
       IN  assignments' = IF agent \in AllowedAgents
                          THEN [current EXCEPT ![agent] = id]
                          ELSE current
    /\ UNCHANGED <<store, providers, total_requests, total_tokens, gw, stream,
                   mock_mode, resolved>>

\* the settings are reloaded with WENSHAPE_LLM_PROVIDER set to "mock" (b) or
\* to something else
SetMockMode(b) ==
    /\ UNCHANGED orch_vars
    /\ UNCHANGED util_vars
    /\ mock_mode # b
    /\ mock_mode' = b
    /\ UNCHANGED <<store, providers, total_requests, total_tokens, gw, stream,
                   assignments, resolved>>

ResolveNext ==
    \/ \E agent \in Agents : Resolve(agent)
    \/ \E agent \in Agents, id \in AssignableIds : SaveAssignments(agent, id)
    \/ \E b \in BOOLEAN : SetMockMode(b)
    \/ \E id \in ProfileIds, kind \in StoredKinds : SaveProfile(id, kind)

----------------------------------------------------------------------------
GwNext ==
    \/ \E id \in ChatTargets, retry \in BOOLEAN : Chat("c1", id, retry)
    \/ \E usage \in 0..MaxUsage : BackendReturn("c1", usage)
    \/ \E e \in ErrorKinds : BackendRaise("c1", e)
    \/ SleepDone("c1")
    \/ \E id \in ProfileIds, kind \in StoredKinds : SaveProfile(id, kind)

\* Chats that overlap: chat is a coroutine of the one gateway instance, a
\* second chat runs whenever the first is suspended in provider.chat.  The
\* overlapping chats are made for profile ids, without retry (so the error
\* is not classified), and their backends fail with one kind of error.
ConcErrorKinds == {"timeout"}

GwConcNext ==
    \/ \E k \in ChatSlots, id \in ProfileIds : Chat(k, id, FALSE)
    \/ \E k \in ChatSlots, usage \in 0..MaxUsage : BackendReturn(k, usage)
    \/ \E k \in ChatSlots, e \in ConcErrorKinds : BackendRaise(k, e)
    \/ \E id \in ProfileIds, kind \in StoredKinds : SaveProfile(id, kind)

\* the chats of GwNext and the resets of routers/config_llm.py
GwResetNext ==
    \/ \E id \in ChatTargets, retry \in BOOLEAN : Chat("c1", id, retry)
    \/ \E usage \in 0..MaxUsage : BackendReturn("c1", usage)
    \/ \E e \in ErrorKinds : BackendRaise("c1", e)
    \/ SleepDone("c1")
    \/ \E id \in ProfileIds, kind \in StoredKinds : SaveProfile(id, kind)
    \/ ResetGateway

\* chat (without retry) and stream_chat on one gateway, one invocation of
\* each at a time; every response reports the same usage and a stream is
\* followed for its first chunk
GwStreamNext ==
    \/ \E id \in ChatTargets : Chat("c1", id, FALSE)
    \/ BackendReturn("c1", MaxUsage)
    \/ \E e \in ConcErrorKinds : BackendRaise("c1", e)
    \/ \E id \in ChatTargets : StreamChat(id)
    \/ \E chunk \in Chunks : stream.produced = << >> /\ StreamChunk(chunk)
    \/ StreamEnd
    \/ \E e \in ConcErrorKinds : StreamRaise(e)
    \/ \E id \in ProfileIds, kind \in StoredKinds : SaveProfile(id, kind)

(* Context engine *)

\* TokenBudgeter(): a budgeter is built from the configuration
NewBudgeter(budget_config) ==
    /\ budgeter' = TokenBudgeter(budget_config)
    /\ budget' = [component |-> "none", value |-> 0]
    /\ UNCHANGED <<counted, window>>
    /\ UNCHANGED orch_vars
    /\ UNCHANGED gw_vars

\* TokenBudgeter.get_budget(component)
GetBudget(component) ==
    /\ budget' = [component |-> component, value |-> get_budget(budgeter, component)]
    /\ UNCHANGED <<budgeter, counted, window>>
    /\ UNCHANGED orch_vars
    /\ UNCHANGED gw_vars

BudgetNext ==
    \/ \E budget_config \in BudgetConfigs : NewBudgeter(budget_config)
    \/ \E component \in Components \cup {UnknownComponent} : GetBudget(component)

\* count_tokens(text), enc being what tiktoken does with the text
CountTokens(text, enc) ==
    /\ counted' = [text |-> text, enc |-> enc, tokens |-> count_tokens(text, enc)]
    /\ UNCHANGED <<budgeter, budget, window>>
    /\ UNCHANGED orch_vars
    /\ UNCHANGED gw_vars

TokenNext ==
    \E text \in Texts : \E enc \in Encodings(text) : CountTokens(text, enc)

\* get_model_context_window(model_name)
GetModelContextWindow(model_name) ==
    /\ window' = [model_name |-> model_name,
                  value |-> get_model_context_window(model_name)]
    /\ UNCHANGED <<budgeter, budget, counted>>
    /\ UNCHANGED orch_vars
    /\ UNCHANGED gw_vars

WindowNext ==
    \E model_name \in ModelNames : GetModelContextWindow(model_name)

Next == OrchNext

Spec == Init /\ [][Next]_vars

GwSpec == Init /\ [][GwNext]_vars

ConcSpec == Init /\ [][ConcNext]_vars

GwConcSpec == Init /\ [][GwConcNext]_vars

GwResetSpec == Init /\ [][GwResetNext]_vars

StreamSpec == Init /\ [][StreamNext]_vars

ResolveSpec == Init /\ [][ResolveNext]_vars

GwStreamSpec == Init /\ [][GwStreamNext]_vars

BudgetSpec == Init /\ [][BudgetNext]_vars

TokenSpec == Init /\ [][TokenNext]_vars

WindowSpec == Init /\ [][WindowNext]_vars

----------------------------------------------------------------------------
(* Properties of the orchestrator, checked under Spec *)

Shape(tr) == [i \in 1..Len(tr) |-> <<tr[i].ev, tr[i].what>>]
Positions(tr, evs) == {i \in 1..Len(tr) : tr[i].ev \in evs}
OkAgents(tr) == {tr[i].what : i \in Positions(tr, {"ok"})}
PipelineAgents == {"archivist", "writer", "reviewer", "editor"}

StartSuccessTrace ==
    << <<"notify", GENERATING_BRIEF>>, <<"exec", "archivist">>, <<"ok", "archivist">>,
       <<"notify", WRITING_DRAFT>>,    <<"exec", "writer">>,    <<"ok", "writer">>,
       <<"notify", REVIEWING>>,        <<"exec", "reviewer">>,  <<"ok", "reviewer">>,
       <<"notify", EDITING>>,          <<"exec", "editor">>,    <<"ok", "editor">>,
       <<"notify", WAITING_FEEDBACK>> >>

\* C1: a start request in which all four role-agents returned success has
\* exactly the trace notify(GENERATING_BRIEF), archivist, notify(WRITING_DRAFT),
\* writer, notify(REVIEWING), reviewer, notify(EDITING), editor,
\* notify(WAITING_FEEDBACK), each notification after the previous agent's return
\* and before the next agent's invocation, and it returns success=true; a start
\* request returns success=true only with that trace.
C1_StartTrace ==
    \A t \in Tasks :
        call[t].op = "start" =>
            /\ OkAgents(trace[t]) = PipelineAgents =>
                  /\ Shape(trace[t]) = StartSuccessTrace
                  /\ pc[t] = "proposals" \/ (pc[t] = "idle" /\ result[t] = "ok")
            /\ result[t] = "ok" => Shape(trace[t]) = StartSuccessTrace

C1_Witness ==
    /\ call["t1"].op = "start" /\ pc["t1"] = "idle" /\ result["t1"] = "ok"
    /\ OkAgents(trace["t1"]) = PipelineAgents

\* C2: 0 <= iteration_count <= max_iterations in every reachable state.
C2_IterationBound == 0 <= iteration_count /\ iteration_count <= max_iterations

\* C3: after a start and revisions in which every role-agent succeeded (the
\* session waits for feedback), a revise request is rejected exactly when
\* iteration_count + 1 > max_iterations at the moment it is made, and an
\* accepted one raises iteration_count by exactly 1.
C3_ReviseLimit ==
    [][\A t \in Tasks :
         (pc[t] = "idle" /\ current_status = WAITING_FEEDBACK
            /\ call'[t].op = "revise") =>
             /\ (result'[t] = "rejected") <=> (iteration_count + 1 > max_iterations)
             /\ result'[t] # "rejected" => iteration_count' = iteration_count + 1]_vars

\* C4: a revise request rejected for the iteration limit leaves status,
\* project_id, chapter_id and iteration_count as they were, invokes no
\* role-agent and emits no notification.
C4_RejectedFrame ==
    [][\A t \in Tasks :
         (pc[t] = "idle" /\ call'[t].op = "revise" /\ result'[t] = "rejected") =>
             /\ current_status' = current_status
             /\ current_project_id' = current_project_id
             /\ current_chapter' = current_chapter
             /\ iteration_count' = iteration_count
             /\ trace'[t] = << >>]_vars

\* C5: in a start request, once a role-agent returns success=false or raises,
\* the status is ERROR, exactly one error notification was emitted (right after
\* that return), the request has returned success=false, and no role-agent
\* was invoked after the failing one.
C5_StartFailure ==
    \A t \in Tasks :
        (call[t].op = "start" /\ Positions(trace[t], {"fail", "raise"}) # {}) =>
            LET tr == trace[t]
                n == Len(tr)
            IN  /\ Positions(tr, {"fail", "raise"}) = {n - 1}
                /\ tr[n].ev = "notify" /\ tr[n].what = ERROR
                /\ Cardinality({i \in Positions(tr, {"notify"}) : tr[i].what = ERROR}) = 1
                /\ Positions(tr, {"exec"}) \subseteq 1..(n - 2)
                /\ pc[t] = "idle" /\ result[t] = "error"
                /\ current_status = ERROR

C5_Witness ==
    /\ call["t1"].op = "start"
    /\ \E i \in Positions(trace["t1"], {"fail"}) : trace["t1"][i].what = "editor"

\* C6: in a revise request, a reviewer that returns success=false ends the
\* request: status ERROR, an error notification, success=false returned, and
\* the editor is not invoked; likewise for an editor that returns success=false.
C6_ReviseFailure ==
    \A t \in Tasks :
        (call[t].op = "revise" /\ Positions(trace[t], {"fail"}) # {}) =>
            LET tr == trace[t]
                n == Len(tr)
            IN  /\ Positions(tr, {"fail"}) = {n - 1}
                /\ tr[n].ev = "notify" /\ tr[n].what = ERROR
                /\ pc[t] = "idle" /\ result[t] = "error"
                /\ current_status = ERROR

AllowedTransition(s, n) ==
    \/ <<s, n>> \in {<<IDLE, GENERATING_BRIEF>>, <<GENERATING_BRIEF, WRITING_DRAFT>>,
                    <<WRITING_DRAFT, REVIEWING>>, <<REVIEWING, EDITING>>,
                    <<EDITING, WAITING_FEEDBACK>>, <<WAITING_FEEDBACK, REVIEWING>>,
                    <<WAITING_FEEDBACK, COMPLETED>>, <<COMPLETED, GENERATING_BRIEF>>,
                    <<ERROR, GENERATING_BRIEF>>}
    \/ n = ERROR
    \/ n = IDLE

\* C7: every change of the status is a step of the pipeline, revise or confirm
\* out of WAITING_FEEDBACK, a move to ERROR, a move to IDLE (cancel), or
\* COMPLETED/ERROR to GENERATING_BRIEF (a new start); a feedback made outside
\* WAITING_FEEDBACK never moves the status to REVIEWING or COMPLETED.
C7_Transitions ==
    [][current_status' # current_status =>
          AllowedTransition(current_status, current_status')]_vars

\* C12: a confirm for a chapter that has a draft version with content (and
\* whose storage calls do not raise) saves the latest draft version as the
\* final draft, with no notification and no status change yet, and awaits the
\* analysis; after the analysis it sets COMPLETED, emits exactly one COMPLETED
\* notification and returns success=true; iteration_count is untouched
\* throughout.  A confirm for a chapter without any draft moves to ERROR,
\* returns success=false and saves no final draft.
C12_Confirm ==
    [][\A t \in Tasks :
         /\ (pc[t] = "idle" /\ call'[t].op = "confirm") =>
               LET p == call'[t].project_id
                   c == call'[t].chapter
               IN  /\ iteration_count' = iteration_count
                   /\ (drafts[p, c] > 0 /\ call'[t].storage = "ok") =>
                         /\ final_drafts' = [final_drafts EXCEPT ![p, c] = drafts[p, c]]
                         /\ pc'[t] = "analyze" /\ trace'[t] = << >>
                         /\ current_status' = current_status
                   /\ drafts[p, c] = 0 =>
                         /\ current_status' = ERROR
                         /\ pc'[t] = "idle" /\ result'[t] = "error"
                         /\ final_drafts' = final_drafts
         /\ (pc[t] = "analyze" /\ pc'[t] # "analyze") =>
               /\ current_status' = COMPLETED
               /\ trace'[t] = <<StatusPayload(COMPLETED, current_project_id,
                                              current_chapter, iteration_count)>>
               /\ pc'[t] = "idle" /\ result'[t] = "ok"
               /\ iteration_count' = iteration_count
               /\ final_drafts' = final_drafts]_vars

C12_Witness ==
    /\ call["t1"].op = "confirm" /\ pc["t1"] = "idle" /\ result["t1"] = "ok"
    /\ current_status = COMPLETED /\ iteration_count = 2
    /\ final_drafts[call["t1"].project_id, call["t1"].chapter] = 4

\* C13: after a cancel has returned (and before the next request) the status
\* is IDLE, project_id and chapter_id are cleared, iteration_count is 0, and
\* the cancel emitted exactly one notification, the idle one.
C13_CancelResets ==
    \A t \in Tasks :
        (call[t].op = "cancel" /\ pc[t] = "idle") =>
            /\ current_status = IDLE
            /\ current_project_id = None /\ current_chapter = None
            /\ iteration_count = 0
            /\ Shape(trace[t]) = << <<"notify", IDLE>> >>

----------------------------------------------------------------------------
\* C29: every notification of a start(p, c) or feedback(p, c) request, the
\* error notification too, carries project_id = p and chapter = c, whatever
\* project and chapter were started last and whether or not a cancel came
\* before.
C29_NotifyIds ==
    \A t \in Tasks :
        call[t].op \in {"start", "revise", "confirm"} =>
            \A i \in Positions(trace[t], {"notify"}) :
                /\ trace[t][i].project_id = call[t].project_id
                /\ trace[t][i].chapter = call[t].chapter

----------------------------------------------------------------------------
(* Properties of overlapping requests, checked under ConcSpec *)

\* routers/session.py _progress_callback: the positions of the payloads of a
\* trace that reach broadcast_progress; a payload without project_id is dropped
Broadcast(tr) == {i \in Positions(tr, {"notify"}) : tr[i].project_id # None}

\* C14: when a request is suspended in a role-agent call and a cancel has
\* returned meanwhile (the status is IDLE), the request's resumption changes no
\* status, broadcasts no notification and invokes no role-agent: it just ends.
C14_CancelDiscards ==
    [][\A t \in Tasks :
         (pc[t] \in PipelineAgents /\ current_status = IDLE /\ pc'[t] # pc[t]) =>
             /\ current_status' = IDLE
             /\ pc'[t] = "idle"
             /\ Positions(trace'[t], {"exec"}) = Positions(trace[t], {"exec"})
             /\ Broadcast(trace'[t]) = Broadcast(trace[t])]_vars

\* C15: at most one start/feedback request is in progress on the controller:
\* two role-agent calls are never in flight together, and while a start is
\* in progress the controller's project_id and chapter_id are that start's
\* (or cleared by a cancel) and iteration_count is the 0 it set.
C15_OneAtATime ==
    /\ Cardinality({t \in Tasks : pc[t] # "idle"}) <= 1
    /\ \A t \in Tasks :
          (pc[t] # "idle" /\ call[t].op = "start") =>
              /\ current_project_id \in {call[t].project_id, None}
              /\ current_chapter \in {call[t].chapter, None}
              /\ iteration_count = 0

----------------------------------------------------------------------------
(* Properties of LLMGateway.chat, checked under GwSpec *)

\* the last failed attempt of the chat in slot k raised an error that
\* classify_error calls retryable / non-retryable
LastErrorRetryable(k) ==
    gw[k].err \in ErrorKinds /\ classify_error(gw[k].err).is_retryable
LastErrorTerminal(k) ==
    gw[k].err \in ErrorKinds /\ ~classify_error(gw[k].err).is_retryable

\* C8: a chat with retry makes at most max_retries backend attempts; it returns
\* the first successful attempt's response, after k failed attempts and k + 1
\* attempts in all (k < max_retries); it raises a retryable error only when
\* max_retries attempts have failed, after exactly max_retries attempts.
C8_RetryBound ==
    \A k \in ChatSlots :
        gw[k].retry =>
            /\ gw[k].calls <= max_retries
            /\ gw[k].pc = "backend" => gw[k].calls = gw[k].fails + 1
            /\ gw[k].pc = "sleep" => gw[k].calls = gw[k].fails
            /\ gw[k].out = "returned" =>
                  gw[k].calls = gw[k].fails + 1 /\ gw[k].fails < max_retries
            /\ (gw[k].out = "raised" /\ LastErrorRetryable(k)) =>
                  gw[k].calls = max_retries /\ gw[k].fails = max_retries

C8_Witness ==
    /\ gw["c1"].retry /\ gw["c1"].out = "raised"
    /\ LastErrorRetryable("c1") /\ gw["c1"].calls = max_retries

\* C9: a chat that returned raised total_requests by exactly 1 and total_tokens
\* by the usage of its response; failed attempts, and a chat that raised
\* (non-retryable error, retries exhausted, profile not found), changed neither.
C9_Counters ==
    \A k \in ChatSlots :
        /\ gw[k].out = "returned" =>
              /\ total_requests = gw[k].req0 + 1
              /\ total_tokens = gw[k].tok0 + gw[k].usage
        /\ gw[k].out \in {"pending", "raised"} =>
              /\ total_requests = gw[k].req0
              /\ total_tokens = gw[k].tok0

C9_Witness ==
    /\ gw["c1"].out = "returned" /\ gw["c1"].fails = max_retries - 1
    /\ gw["c1"].usage > 0 /\ gw["c1"].req0 > 0

\* C10: with retry, a failed attempt whose error is classified non-retryable
\* (auth, invalid request) ends the chat at once with that error: no sleep
\* follows it and no further attempt is made, whatever attempts remain.
C10_NonRetryable ==
    \A k \in ChatSlots :
        (gw[k].retry /\ LastErrorTerminal(k)) =>
            /\ gw[k].pc = "idle" /\ gw[k].out = "raised"
            /\ gw[k].calls = gw[k].fails
            /\ Len(gw[k].sleeps) = gw[k].fails - 1

C10_Witness ==
    /\ gw["c1"].retry /\ gw["c1"].out = "raised" /\ gw["c1"].err = "auth"
    /\ gw["c1"].fails = 2

\* the delay the retry policy prescribes after the failed attempt with
\* 0-based index i
PolicyDelay(i) ==
    LET n == Len(retry_delays)
    IN  Min(IF i < n THEN retry_delays[i + 1] ELSE retry_delays[n], max_retry_delay)

\* C11: the sleep after the failed retryable attempt with 0-based index i lasts
\* min(delays[i] if i < len(delays) else delays[-1], max_retry_delay); one sleep
\* follows every failed retryable attempt but the last permitted one, after
\* which none follows; for every index i >= len(delays) the delay is
\* min(delays[-1], max_retry_delay).
C11_Delay ==
    /\ \A k \in ChatSlots :
          gw[k].retry =>
            /\ \A j \in 1..Len(gw[k].sleeps) : gw[k].sleeps[j] = PolicyDelay(j - 1)
            /\ Len(gw[k].sleeps) <= max_retries - 1
            /\ gw[k].pc = "sleep" => Len(gw[k].sleeps) = gw[k].fails
            /\ gw[k].pc = "backend" => Len(gw[k].sleeps) = gw[k].fails
            /\ (gw[k].out = "raised" /\ LastErrorRetryable(k)) =>
                  Len(gw[k].sleeps) = max_retries - 1
    /\ \A i \in Len(retry_delays)..MaxAttemptIndex :
          get_retry_delay(i, retry_delays, max_retry_delay)
            = Min(retry_delays[Len(retry_delays)], max_retry_delay)

C11_Witness ==
    /\ gw["c1"].retry /\ gw["c1"].out = "raised" /\ LastErrorRetryable("c1")
    /\ gw["c1"].sleeps = <<1, 2, 4, 8>>

\* C18: no operation on the gateway lowers total_requests or total_tokens as
\* stats() reports them; in particular the values read right after a reset
\* equal the values read right before it.
C18_CountersKept ==
    [][total_requests' >= total_requests /\ total_tokens' >= total_tokens]_vars

\* the policy table of the error classifier
ClassifyTable(e) ==
    CASE e = "auth"            -> [is_retryable |-> FALSE, reason |-> "auth"]
      [] e = "invalid_request" -> [is_retryable |-> FALSE, reason |-> "invalid_request"]
      [] e = "timeout"         -> [is_retryable |-> TRUE,  reason |-> "timeout"]
      [] e = "connection"      -> [is_retryable |-> TRUE,  reason |-> "connection"]
      [] e = "rate_limit"      -> [is_retryable |-> TRUE,  reason |-> "rate_limit"]
      [] e = "server_error"    -> [is_retryable |-> TRUE,  reason |-> "server_error"]
      [] OTHER                 -> [is_retryable |-> TRUE,  reason |-> "unknown"]

----------------------------------------------------------------------------
(* Properties of overlapping chats, checked under GwConcSpec *)

\* C16: a chat for a stored profile id that was not cached loads it: the chat
\* does not fail with "not found", while it is in flight its target is its own
\* id and the cache binds the id to the client built from its own profile,
\* whatever another chat loads meanwhile; and no step removes or rebinds a
\* cache entry, so after two overlapping chats for two distinct uncached ids
\* both ids are cached.
C16_ConcurrentLoad ==
    /\ [](\A k \in ChatSlots :
            gw[k].lazy =>
              /\ gw[k].err # "not_found"
              /\ gw[k].pc # "idle" =>
                    /\ gw[k].target = gw[k].arg
                    /\ providers[gw[k].arg] # Absent
                    /\ providers[gw[k].arg] = CreateProvider(store[gw[k].arg]))
    /\ [][\A id \in Loaded(providers) : providers'[id] = providers[id]]_vars

C16_Witness ==
    /\ gw["c1"].lazy /\ gw["c2"].lazy
    /\ gw["c1"].pc = "backend" /\ gw["c2"].pc = "backend"
    /\ gw["c1"].arg = "pA" /\ gw["c2"].arg = "pB"
    /\ providers["pA"] = "custom" /\ providers["pB"] = "qwen"

\* C17: two chats that began at the same counter values (so they overlapped)
\* and both returned have raised total_requests by exactly 2 and total_tokens
\* by exactly the sum of the two reported usages, in every interleaving.
C17_NoLostUpdate ==
    (/\ gw["c1"].out = "returned" /\ gw["c2"].out = "returned"
     /\ gw["c1"].req0 = gw["c2"].req0) =>
        /\ gw["c1"].tok0 = gw["c2"].tok0
        /\ total_requests = gw["c1"].req0 + 2
        /\ total_tokens = gw["c1"].tok0 + gw["c1"].usage + gw["c2"].usage

C17_Witness ==
    /\ gw["c1"].out = "returned" /\ gw["c2"].out = "returned"
    /\ gw["c1"].req0 = gw["c2"].req0
    /\ gw["c1"].usage = 1 /\ gw["c2"].usage = 2 /\ gw["c1"].tok0 > 0

----------------------------------------------------------------------------
(* Properties of LLMGateway.stream_chat, checked under StreamSpec *)

\* C19: a stream whose profile resolves invokes the backend's streaming call
\* exactly once; what the caller has received is at every moment exactly the
\* chunks the backend has yielded, in the backend's order; when the backend
\* fails, before or after some chunks, the stream ends with that error
\* (retryable or not) and the backend was still invoked only once.
C19_Stream ==
    /\ stream.forwarded = stream.produced
    /\ stream.out \in {"pending", "done"} => stream.calls = 1
    /\ stream.err \in ErrorKinds =>
          /\ stream.pc = "idle" /\ stream.out = "raised"
          /\ stream.calls = 1
    /\ stream.out = "raised" => stream.err \in ErrorKinds \cup {"not_found"}
    /\ stream.err = "not_found" => stream.calls = 0 /\ stream.produced = << >>

C19_Witness ==
    /\ stream.out = "raised" /\ stream.err = "timeout"
    /\ stream.forwarded = <<"a", "b">> /\ stream.calls = 1

----------------------------------------------------------------------------
(* Properties of LLMGateway.get_provider_for_agent, checked under ResolveSpec *)

\* C20: a get_provider_for_agent call made in mock mode returned "mock",
\* whatever the agent and whatever the assignments and saved profiles; and the
\* cache holds a client under "mock" (from the construction of the gateway
\* on), so a chat with the returned id finds its client.
C20_MockMode ==
    /\ resolved.mock => resolved.out = MockId
    /\ MockId \in Loaded(providers)
    /\ ResolveTargets(providers, MockId) = {MockId}

C20_Witness ==
    /\ resolved.mock /\ resolved.agent = "writer" /\ resolved.out = MockId
    /\ AssignedProfile("writer") = "pA" /\ "pA" \in Loaded(providers)

\* C21: a get_provider_for_agent call made outside mock mode for an agent
\* that get_assignments gave no profile ended with the configuration error
\* that names the agent; it returned no profile id.
C21_Unassigned ==
    (resolved.agent \in Agents /\ ~resolved.mock /\ resolved.pid = NoProfile) =>
        resolved.out = "not_assigned"

\* a get_provider_for_agent call for the agent is made in this step
ResolveRan(agent) == resolved' # resolved /\ resolved'.agent = agent

\* the outcomes of get_provider_for_agent that are configuration errors
ConfigurationErrors == {"not_assigned", "not_loaded"}

\* C27: outside mock mode, a get_provider_for_agent call for an agent whose
\* saved assignment names a profile id that is not in the cache builds the
\* client of the saved profile, puts it into the cache under the id and
\* returns the id; when no profile is saved under the id, or no client can
\* be built for it, the call ends with a configuration error and the cache
\* is as before.
C27_LazyLoad ==
    [][\A agent \in AllowedAgents, id \in AssignableIds \ {NoProfile} :
          ( /\ ResolveRan(agent)
            /\ ~mock_mode
            /\ assignments[agent] = id
            /\ id \notin Loaded(providers) ) =>
              IF id \in ProfileIds /\ store[id] \in Kinds
              THEN /\ providers' = [providers EXCEPT ![id] = store[id]]
                   /\ resolved'.out = id
              ELSE /\ resolved'.out \in ConfigurationErrors
                   /\ providers' = providers]_vars

\* get_assignments() maps the agent to the profile id
MapsTo(asg, agent, id) == agent \in DOMAIN asg /\ asg[agent] = id

\* C30: for each of the agents archivist, writer, reviewer and editor, once
\* save_assignments has saved agent -> p for a saved profile p,
\* get_assignments() maps the agent to p; outside mock mode
\* get_provider_for_agent returns the profile get_assignments() maps the
\* agent to; and get_assignments() returns no id of a profile that is not
\* saved.
C30_Assignments ==
    /\ [](\A agent \in DOMAIN GetAssignments(assignments, store) :
            LET id == GetAssignments(assignments, store)[agent]
            IN  id # NoProfile => (id \in ProfileIds /\ store[id] # Absent))
    /\ [][\A agent \in Agents, id \in ProfileIds :
            (SaveAssignments(agent, id) /\ store[id] # Absent) =>
                MapsTo(GetAssignments(assignments', store'), agent, id)]_vars
    /\ [][\A agent \in Agents, id \in ProfileIds :
            ( /\ ResolveRan(agent)
              /\ ~mock_mode
              /\ store[id] \in Kinds
              /\ MapsTo(GetAssignments(assignments, store), agent, id) ) =>
                resolved'.out = id]_vars

----------------------------------------------------------------------------
(* Properties of chat and stream_chat, checked under GwStreamSpec *)

\* the argument is no key of the cache and no client can be built for it
\* from the profile store
Unloadable(id) ==
    id \notin Loaded(providers) /\ (id \notin ProfileIds \/ store[id] \notin Kinds)

\* the argument is the provider name of a cached client
NamesCachedClient(id) == \E pid \in Loaded(providers) : providers[pid] = id

\* this step is the beginning of a chat in slot k / of a stream
ChatBegins(k) == gw[k].pc = "idle" /\ gw'[k] # gw[k]
StreamBegins == stream.pc = "idle" /\ stream' # stream

\* the chat / stream that begins fails with "not found" before any backend
\* call, and cache and counters are as before
ChatNotFound(k) ==
    /\ gw'[k].pc = "idle" /\ gw'[k].out = "raised" /\ gw'[k].err = "not_found"
    /\ gw'[k].calls = 0 /\ gw'[k].target = "none"
    /\ providers' = providers
    /\ total_requests' = total_requests /\ total_tokens' = total_tokens
StreamNotFound ==
    /\ stream'.pc = "idle" /\ stream'.out = "raised" /\ stream'.err = "not_found"
    /\ stream'.calls = 0 /\ stream'.target = "none"
    /\ providers' = providers
    /\ total_requests' = total_requests /\ total_tokens' = total_tokens

\* C22 as stated: a chat, and a stream, whose profile_id is no key of the
\* cache and cannot be loaded from the profile store fails with "not found"
\* before any backend call, with cache and counters unchanged, and with no
\* other profile's client used.
C22_NotFound_Original ==
    [][/\ \A k \in ChatSlots :
            (ChatBegins(k) /\ Unloadable(gw'[k].arg)) => ChatNotFound(k)
       /\ (StreamBegins /\ Unloadable(stream'.arg)) => StreamNotFound]_vars

\* C22 amended: a chat, and a stream, whose profile_id is no key of the
\* cache, cannot be loaded from the profile store and is not the provider
\* name of a cached client fails with "not found" before any backend call,
\* with cache and counters unchanged; when it is the provider name of cached
\* clients, the client of one of them is called instead.
C22_NotFound ==
    [][/\ \A k \in ChatSlots :
            (ChatBegins(k) /\ Unloadable(gw'[k].arg)) =>
                IF NamesCachedClient(gw'[k].arg)
                THEN /\ gw'[k].pc = "backend" /\ gw'[k].calls = 1
                     /\ gw'[k].target \in Loaded(providers)
                     /\ providers[gw'[k].target] = gw'[k].arg
                     /\ providers' = providers
                ELSE ChatNotFound(k)
       /\ (StreamBegins /\ Unloadable(stream'.arg)) =>
                IF NamesCachedClient(stream'.arg)
                THEN /\ stream'.pc = "stream" /\ stream'.calls = 1
                     /\ stream'.target \in Loaded(providers)
                     /\ providers[stream'.target] = stream'.arg
                     /\ providers' = providers
                ELSE StreamNotFound]_vars

C22_Witness ==
    /\ gw["c1"].arg = "ghost" /\ gw["c1"].err = "not_found"
    /\ stream.arg = "pB" /\ stream.err = "not_found" /\ store["pB"] = Unsupported
    /\ "pA" \in Loaded(providers) /\ total_requests > 0

----------------------------------------------------------------------------
(* Claims about the token budgeter, under BudgetSpec *)

\* the allocation of the component last asked for, in hundredths
AskedAllocation == budgeter.allocations[budget.component]

\* C24: get_budget(category) is floor(total_tokens * fraction(category)) for
\* every configured category and 0 for a category that is not configured;
\* with total_tokens = 128000 and the fraction 0.3 it is 38400.
C24_GetBudget ==
    /\ budget.component \in Components =>
          budget.value = (budgeter.total_tokens * AskedAllocation) \div FractionDen
    /\ budget.component = UnknownComponent => budget.value = 0
    /\ ( /\ budget.component \in Components
         /\ budgeter.total_tokens = 128000
         /\ AskedAllocation = 30 ) => budget.value = 38400

\* C28: whatever total_tokens and fractions the budgeter was constructed
\* with, get_budget(c) is an integer from 0 to total_tokens.
C28_BudgetInRange ==
    budget.component # "none" =>
        /\ budget.value \in Int
        /\ 0 <= budget.value
        /\ budget.value <= budgeter.total_tokens

----------------------------------------------------------------------------
(* Claims about the token counter, under TokenSpec *)

\* a CJK code point: U+4E00..U+9FFF, U+3400..U+4DBF, U+20000..U+2A6DF,
\* U+2A700..U+2B73F
IsCJK(cp) ==
    \/ cp \in 19968..40959
    \/ cp \in 13312..19903
    \/ cp \in 131072..173791
    \/ cp \in 173824..177983

CjkOf(text) == Cardinality({i \in 1..Len(text) : IsCJK(text[i])})

\* the text was counted without the exact tokenizer
Fallback == counted.enc.out \in {"unavailable", "raise"}

\* C25: count("") = 0, count(t) >= 1 for a non-empty t, and without the exact
\* tokenizer count(t) = floor(cjk/1.5 + other/4) + 1 with cjk the number of
\* CJK code points of t and other the number of its other characters.
C25_Count ==
    counted.enc.out # "none" =>
        /\ counted.text = << >> => counted.tokens = 0
        /\ counted.text # << >> => counted.tokens >= 1
        /\ (counted.text # << >> /\ Fallback) =>
              counted.tokens =
                  ((8 * CjkOf(counted.text)
                      + 3 * (Len(counted.text) - CjkOf(counted.text))) \div 12) + 1

----------------------------------------------------------------------------
(* Claims about the context windows, under WindowSpec *)

\* the name last asked for, letter case set aside
AskedName == lower(window.model_name)
\* the table keys equal to the name, and those that match it by prefix
EqualKeys ==
    {i \in 1..Len(MODEL_CONTEXT_WINDOWS) : MODEL_CONTEXT_WINDOWS[i].key = AskedName}
PrefixKeys ==
    {i \in 1..Len(MODEL_CONTEXT_WINDOWS) :
        \/ startswith(AskedName, MODEL_CONTEXT_WINDOWS[i].key)
        \/ startswith(MODEL_CONTEXT_WINDOWS[i].key, AskedName)}
Has(mark) == contains(AskedName, mark)
\* what the name says about the window: "128k", "64k", "32k", "16k", "8k"
\* in that order, 0 if it says nothing
Inferred ==
    IF Has(<<"1", "2", "8", "k">>) THEN 128000
    ELSE IF Has(<<"6", "4", "k">>) THEN 64000
    ELSE IF Has(<<"3", "2", "k">>) THEN 32000
    ELSE IF Has(<<"1", "6", "k">>) THEN 16000
    ELSE IF Has(<<"8", "k">>) THEN 8000
    ELSE 0

\* C26: context_window(name) is the table value on an exact match of the name
\* (letter case set aside); otherwise the value of a table key that matches
\* the name by prefix; otherwise 128000, 64000, 32000, 16000 or 8000 when the
\* name contains "128k", "64k", "32k", "16k" or "8k", tested in that order;
\* otherwise 32000.  "gpt-4o" gives 128000, "totally-unknown-model" 32000.
C26_ContextWindow ==
    window.value # 0 =>
        /\ EqualKeys # {} =>
              \A i \in EqualKeys : window.value = MODEL_CONTEXT_WINDOWS[i].value
        /\ (EqualKeys = {} /\ PrefixKeys # {}) =>
              \E i \in PrefixKeys : window.value = MODEL_CONTEXT_WINDOWS[i].value
        /\ (EqualKeys = {} /\ PrefixKeys = {} /\ Inferred # 0) =>
              window.value = Inferred
        /\ (EqualKeys = {} /\ PrefixKeys = {} /\ Inferred = 0) =>
              window.value = 32000
        /\ window.model_name = <<"g", "p", "t", "-", "4", "o">> =>
              window.value = 128000
        /\ window.model_name = <<"t", "o", "t", "a", "l", "l", "y", "-", "u", "n",
                                 "k", "n", "o", "w", "n", "-", "m", "o", "d", "e",
                                 "l">> =>
              window.value = 32000

\* "gpt-432k" was asked for: it matches the key "gpt-4" by prefix and holds
\* "32k"; the prefix decided
C26_Witness ==
    /\ window.model_name = <<"g", "p", "t", "-", "4", "3", "2", "k">>
    /\ EqualKeys = {}
    /\ PrefixKeys # {}
    /\ Inferred = 32000
    /\ window.value = 8192

====
